---- MODULE Spec2Model ----
(***************************************************************************)
(* A model of CrowdsourcingTripleValues (src/CrowdsourceTrajectory.py):    *)
(* the batch generator, the result parser / round advancer and the         *)
(* aggregator, each public method one action.                              *)
(*                                                                         *)
(* Text is modelled as a sequence of tokens (strings): an identifier is    *)
(* one token, and "," , " " and "\n" are tokens of their own, so that what *)
(* a write puts in a file and what a reader splits out of it can differ.   *)
(***************************************************************************)
EXTENDS Integers, Sequences, FiniteSets, TLC

VARIABLES
  videos,                  \* self.videos: the item list (padded and shuffled by generate_queries)
  queries_per_hit,         \* self.queries_per_hit: slots per row
  workers_per_hit,         \* self.workers_per_hit
  gold_standard_position,  \* self.gold_standard_position (1-based)
  round,                   \* self.round
  result,                  \* self.result: video -> <<#True, #False, #Unclear>>
  data,                    \* self.data: video -> "None" | "True" | "False"
  files,                   \* the query files of the directory: name -> tokens, or NoFile
  results_csv,             \* the result file read last: [round, df], result_round<round>.csv and its table
  queried,                 \* per video, its occurrences at non-gold columns of the result tables read so far
  cells_read,              \* the cells of the result tables read so far
  lastCall                 \* what the last method call did (its locals, what it printed and how it ended)

vars == <<videos, queries_per_hit, workers_per_hit, gold_standard_position, round,
          result, data, files, results_csv, queried, cells_read, lastCall>>

-----------------------------------------------------------------------------
(* Bounds of the model.                                                    *)

MaxVideos == 5        \* items of the list given to the generator (SpecGenerate)
MaxItems == 2         \* items of the list in the full workflow (Spec)
MaxSlots == 3         \* queries_per_hit
MaxWorkers == 2       \* workers_per_hit
MaxCells == 4         \* cells (rows x queries_per_hit) of all result tables read
MaxVotes == 2         \* votes tallied before a further parse call is made

(* The identifiers the item list is drawn from, and the gold-standard pool. *)
VideoIds == <<"v1", "v2", "v3", "v4", "v5", "v6">>
gold_standards == <<"g1", "g2">>

NoFile == <<"<absent>">>
\* no result file was read yet; the file of round r, read as table df
Unread == [round |-> 0, df |-> <<>>]
Read(r, df) == [round |-> r, df |-> df]
StaleBatch == <<"video", "1", "\n", "old", "\n">>
\* no completion rate was printed
NoRate == [num |-> 0, den |-> 0]

Range(s) == {s[i] : i \in DOMAIN s}

-----------------------------------------------------------------------------
(* generate_queries                                                        *)

\* the file name of os.path.join(directory, "query_round" + str(round) + ".csv")
QueryFileName(r) == <<"query_round", r>>

\* the configuration check, letting one position past the last slot through (a mutant)
GoldPositionOutOfRangeLax(pos, slots) == pos > slots + 1
\* the configuration check of generate_queries
GoldPositionOutOfRange(pos, slots) == pos > slots

\* str(i)
Str(i) == ToString(i)

\* the header row: prefix1,prefix2,...,prefixN\n
RECURSIVE HeaderFrom(_, _, _)
HeaderFrom(prefix, i, slots) ==
  IF i >= slots THEN <<>>
  ELSE <<prefix, Str(i + 1)>>
       \o (IF i + 1 < slots THEN <<",">> ELSE <<"\n">>)
       \o HeaderFrom(prefix, i + 1, slots)

Header(prefix, slots) == HeaderFrom(prefix, 0, slots)

\* lines 77-84: the header row generate_queries writes, video1,...,videoN
GeneratorHeader(slots) == Header("video", slots)

\* lines 196-202: the header row the round advancer writes, relation1,...,relationN
AdvancerHeader(slots) == Header("relation", slots)

\* add_number = (queries_per_hit - (len(videos) % (queries_per_hit - 1))) % queries_per_hit - 1
AddNumber(n, slots) == ((slots - (n % (slots - 1))) % slots) - 1

\* the number of gold-standard draws the writing loop makes over n items
RECURSIVE NumGoldDraws(_, _, _, _)
NumGoldDraws(n, counter, pos, slots) ==
  IF n = 0 THEN 0
  ELSE LET isGold == counter + 1 = pos
           c1 == IF isGold THEN counter + 1 ELSE counter
       IN (IF isGold THEN 1 ELSE 0)
          + (IF c1 + 1 < slots THEN NumGoldDraws(n - 1, c1 + 1, pos, slots)
             ELSE NumGoldDraws(n - 1, 0, pos, slots))

\* fh.write(gold_standards[...] + ", ")
GoldWrite(g) == <<g, ",", " ">>

\* the writing loop: for q in self.videos ..., draws the gold standards it picks
RECURSIVE WriteQueries(_, _, _, _, _)
WriteQueries(vs, counter, draws, pos, slots) ==
  IF vs = <<>> THEN <<>>
  ELSE LET isGold == counter + 1 = pos
           c1 == IF isGold THEN counter + 1 ELSE counter
           d1 == IF isGold THEN Tail(draws) ELSE draws
       IN (IF isGold THEN GoldWrite(gold_standards[Head(draws)]) ELSE <<>>)
          \o <<Head(vs)>>
          \o (IF c1 + 1 < slots
              THEN <<",">> \o WriteQueries(Tail(vs), c1 + 1, d1, pos, slots)
              ELSE <<"\n">> \o WriteQueries(Tail(vs), 0, d1, pos, slots))

generate_queries ==
  LET filename == QueryFileName(round)
      slots == queries_per_hit
      pos == gold_standard_position
      header == GeneratorHeader(slots)
      add_number == AddNumber(Len(videos), slots)
  IN IF GoldPositionOutOfRange(pos, slots)
     THEN \* exit() before the file is opened
          /\ lastCall' = [op |-> "generate_queries", status |-> "exit",
                          reject_ids |-> <<>>, overwrite |-> FALSE, complete |-> 0, rate |-> NoRate]
          /\ UNCHANGED <<videos, files>>
     ELSE IF add_number < 0
     THEN \* np.random.choice(n, -1) raises ValueError; the header is written
          /\ files' = [files EXCEPT ![filename] = header]
          /\ lastCall' = [op |-> "generate_queries", status |-> "ValueError",
                          reject_ids |-> <<>>, overwrite |-> FALSE, complete |-> 0, rate |-> NoRate]
          /\ UNCHANGED videos
     ELSE \E add_pos \in [1..add_number -> 1..Len(videos)] :
            LET padded == videos \o [i \in 1..add_number |-> videos[add_pos[i]]]
            IN \E p \in Permutations(1..Len(padded)) :
                 LET shuffled == [i \in 1..Len(padded) |-> padded[p[i]]]
                     k == NumGoldDraws(Len(shuffled), 0, pos, slots)
                 IN \E draws \in [1..k -> 1..Len(gold_standards)] :
                      /\ videos' = shuffled
                      /\ files' = [files EXCEPT ![filename] =
                                     header \o WriteQueries(shuffled, 0, draws, pos, slots)]
                      /\ lastCall' = [op |-> "generate_queries", status |-> "ok",
                                      reject_ids |-> <<>>, overwrite |-> FALSE, complete |-> 0, rate |-> NoRate]

GenerateQueries ==
  /\ generate_queries
  /\ UNCHANGED <<queries_per_hit, workers_per_hit, gold_standard_position, round,
                 result, data, results_csv, queried, cells_read>>

-----------------------------------------------------------------------------
(* parse_results_and_generate_additional_queries                           *)
(*                                                                         *)
(* df, the table pd.read_csv returns, is a sequence of rows; a row is a    *)
(* sequence of queries_per_hit cells [rel, ans]: the values of the columns *)
(* Input.relation<k> and Answer.value<k>.  Row i of the code is df[i + 1]. *)

Answers == {"True", "False", "Unclear"}
\* the cells of the gold column: a gold standard with any answer, or an
\* item that is no gold standard answered "False"
GoldColumnCells == [rel : {"g1"}, ans : Answers] \cup {[rel |-> "v1", ans |-> "False"]}
\* the cells of the other columns: "v2" has no tally when the list is <<"v1">>
OtherColumnCells == [rel : {"v1", "v2"}, ans : Answers]

Cells(k, pos) == IF k = pos THEN GoldColumnCells ELSE OtherColumnCells

Rows(pos, slots) ==
  {row \in [1..slots -> GoldColumnCells \cup OtherColumnCells] :
     \A k \in 1..slots : row[k] \in Cells(k, pos)}

RECURSIVE TablesOfLen(_, _, _)
TablesOfLen(n, pos, slots) ==
  IF n = 0 THEN {<<>>}
  ELSE {Append(t, row) : t \in TablesOfLen(n - 1, pos, slots), row \in Rows(pos, slots)}

\* the tables of at most maxCells cells
Tables(pos, slots, maxCells) ==
  UNION {TablesOfLen(n, pos, slots) : n \in 0..(maxCells \div slots)}

\* the rejection test of line 130, without the membership test (a mutant)
RejectsAnyFalse(video, answer) == answer = "False"
\* video in self.gold_standards and df.ix[i, header_ans] == "False"
Rejects(video, answer) == video \in Range(gold_standards) /\ answer = "False"

\* the bucket an answer is counted in, with True and False exchanged (a mutant)
BucketSwapped(answer) ==
  IF answer = "True" THEN 2 ELSE IF answer = "False" THEN 1 ELSE 3
\* lines 156-161: the (1-based) bucket an answer is counted in
Bucket(answer) ==
  IF answer = "True" THEN 1 ELSE IF answer = "False" THEN 2 ELSE 3

\* the bucket set to 1 instead of incremented by 1 (a mutant)
IncrementOnce(res, video, b) == [res EXCEPT ![video][b] = 1]
\* self.result[video][b] += 1
Increment(res, video, b) == [res EXCEPT ![video][b] = @ + 1]

\* the loop over the columns of one accepted row, lines 149-161
RECURSIVE TallyRow(_, _, _, _, _)
TallyRow(row, qi, res, pos, slots) ==
  IF qi >= slots THEN [result |-> res, status |-> "ok"]
  ELSE IF qi + 1 = pos THEN TallyRow(row, qi + 1, res, pos, slots)
  ELSE IF row[qi + 1].rel \notin DOMAIN res
       THEN [result |-> res, status |-> "KeyError"]
       ELSE TallyRow(row, qi + 1,
                     Increment(res, row[qi + 1].rel, Bucket(row[qi + 1].ans)),
                     pos, slots)

\* the loop over the rows, a rejected row tallied like any other (a mutant)
RECURSIVE ParseRowsTallyingRejected(_, _, _, _, _, _)
ParseRowsTallyingRejected(df, i, res, rej, pos, slots) ==
  IF i >= Len(df) THEN [result |-> res, reject_ids |-> rej, status |-> "ok"]
  ELSE IF pos \notin 1..slots
       THEN [result |-> res, reject_ids |-> rej, status |-> "KeyError"]
  ELSE LET t == TallyRow(df[i + 1], 0, res, pos, slots)
           rej1 == IF Rejects(df[i + 1][pos].rel, df[i + 1][pos].ans)
                   THEN Append(rej, i) ELSE rej
       IN IF t.status # "ok"
          THEN [result |-> t.result, reject_ids |-> rej1, status |-> t.status]
          ELSE ParseRowsTallyingRejected(df, i + 1, t.result, rej1, pos, slots)

\* the loop over the rows, lines 120-161
RECURSIVE ParseRows(_, _, _, _, _, _)
ParseRows(df, i, res, rej, pos, slots) ==
  IF i >= Len(df) THEN [result |-> res, reject_ids |-> rej, status |-> "ok"]
  ELSE IF pos \notin 1..slots
       THEN \* no column Answer.value<pos> in the table
            [result |-> res, reject_ids |-> rej, status |-> "KeyError"]
  ELSE IF Rejects(df[i + 1][pos].rel, df[i + 1][pos].ans)
       THEN ParseRows(df, i + 1, res, Append(rej, i), pos, slots)
  ELSE LET t == TallyRow(df[i + 1], 0, res, pos, slots)
       IN IF t.status # "ok"
          THEN [result |-> t.result, reject_ids |-> rej, status |-> t.status]
          ELSE ParseRows(df, i + 1, t.result, rej, pos, slots)

\* lines 188-189, adding 1 for every rejected row (a mutant)
NextRoundPerRejection(r, rej) == r + Len(rej)
\* lines 188-189, the counter left as it is (a mutant)
NextRoundKept(r, rej) == r
\* lines 188-189: if len(reject_ids) > 0: self.round += 1
NextRound(r, rej) == IF Len(rej) > 0 THEN r + 1 ELSE r

\* the name of the file the round advancer opens, line 191
AdditionalQueriesFileName(r) == <<"query_relation_round", r>>

\* whether the object has the attribute self.relation: __init__ does not set it
HasRelation == FALSE

\* lines 209-216: the rows of the rejected indices
RECURSIVE WriteRejected(_, _, _, _)
WriteRejected(df, rej, qi, slots) ==
  IF rej = <<>> THEN <<>>
  ELSE IF qi >= slots THEN WriteRejected(df, Tail(rej), 0, slots)
  ELSE <<df[Head(rej) + 1][qi + 1].rel>>
       \o (IF qi + 1 < slots THEN <<",">> ELSE <<"\n">>)
       \o WriteRejected(df, rej, qi + 1, slots)

\* occurrences of video v at the non-gold columns of table df
Occurrences(df, v, pos) ==
  Cardinality({ik \in (1..Len(df)) \X (1..Len(df[1])) :
                 ik[2] # pos /\ df[ik[1]][ik[2]].rel = v})

TotalVotes(res) ==
  LET RECURSIVE SumOver(_)
      SumOver(S) == IF S = {} THEN 0
                    ELSE LET v == CHOOSE x \in S : TRUE
                         IN res[v][1] + res[v][2] + res[v][3] + SumOver(S \ {v})
  IN SumOver(DOMAIN res)

\* the file result_round<round>.csv is not there: pd.read_csv raises
ParseMissingFile ==
  /\ results_csv.round # round
  /\ lastCall' = [op |-> "parse", status |-> "IOError", reject_ids |-> <<>>, overwrite |-> FALSE, complete |-> 0, rate |-> NoRate]
  /\ UNCHANGED <<videos, queries_per_hit, workers_per_hit, gold_standard_position,
                 round, result, data, files, results_csv, queried, cells_read>>

parse_results_and_generate_additional_queries(df, overwrite) ==
  LET slots == queries_per_hit
      pos == gold_standard_position
      p == ParseRows(df, 0, result, <<>>, pos, slots)
      advance == p.status = "ok" /\ Len(p.reject_ids) > 0
      crash == advance /\ overwrite /\ ~HasRelation
      queries_filename == AdditionalQueriesFileName(round + 1)
  IN /\ result' = p.result
     /\ round' = IF p.status = "ok" THEN NextRound(round, p.reject_ids) ELSE round
     /\ results_csv' = Read(round, df)
     /\ files' = IF advance /\ overwrite /\ HasRelation
                 THEN [files EXCEPT ![queries_filename] =
                         AdvancerHeader(slots)
                         \o WriteRejected(df, p.reject_ids, 0, slots)]
                 ELSE files
     /\ lastCall' = [op |-> "parse",
                     status |-> IF crash THEN "AttributeError" ELSE p.status,
                     reject_ids |-> p.reject_ids, overwrite |-> overwrite,
                     complete |-> 0, rate |-> NoRate]

Parse(overwrite) ==
  /\ TotalVotes(result) <= MaxVotes
  /\ \E df \in (IF results_csv.round = round
                THEN {results_csv.df}
                ELSE Tables(gold_standard_position, queries_per_hit,
                            MaxCells - cells_read)) :
       /\ parse_results_and_generate_additional_queries(df, overwrite)
       /\ queried' = IF results_csv.round # round /\ df # <<>>
                     THEN [v \in DOMAIN queried |->
                             queried[v] + Occurrences(df, v, gold_standard_position)]
                     ELSE queried
       /\ cells_read' = IF results_csv.round # round
                        THEN cells_read + Len(df) * queries_per_hit
                        ELSE cells_read
  /\ UNCHANGED <<videos, queries_per_hit, workers_per_hit, gold_standard_position, data>>

ParseResults == Parse(FALSE)
ParseResultsOverwrite == Parse(TRUE)

-----------------------------------------------------------------------------
(* process_results                                                         *)

\* the keys of self.result in the order of the OrderedDict
ResultKeys == SelectSeq(VideoIds, LAMBDA v : v \in DOMAIN result)

Sum3(t) == t[1] + t[2] + t[3]

\* np.argmax: the first index of the maximum (1-based)
ArgMax(t) ==
  CHOOSE i \in 1..3 : (\A j \in 1..3 : t[j] <= t[i]) /\ (\A j \in 1..(i-1) : t[j] < t[i])

\* lines 266-271
LabelOf(bool_idx) ==
  IF bool_idx = 1 THEN "True" ELSE IF bool_idx = 2 THEN "False" ELSE "None"

\* sum(self.result[video]) < self.workers_per_hit
Incomplete(t, workers) == Sum3(t) < workers

\* the loop of lines 257-271 over the keys from position i on
RECURSIVE ProcessFrom(_, _, _, _)
ProcessFrom(keys, i, d, number_complete) ==
  IF i > Len(keys) THEN [data |-> d, complete |-> number_complete, status |-> "ok"]
  ELSE IF Incomplete(result[keys[i]], workers_per_hit)
       THEN \* line 259 reads the undefined names subj, obj
            [data |-> d, complete |-> number_complete, status |-> "NameError"]
       ELSE ProcessFrom(keys, i + 1,
                        [d EXCEPT ![keys[i]] = LabelOf(ArgMax(result[keys[i]]))],
                        number_complete + 1)

\* line 275: print("Completion rate:", number_complete / len(self.videos)),
\* the quotient kept as numerator and denominator
CompletionRate(number_complete) == [num |-> number_complete, den |-> Len(videos)]

process_results ==
  LET p == ProcessFrom(ResultKeys, 1, data, 0)
  IN /\ data' = p.data
     /\ lastCall' = [op |-> "process_results", status |-> p.status,
                     reject_ids |-> <<>>, overwrite |-> FALSE,
                     complete |-> p.complete,
                     rate |-> IF p.status = "ok" THEN CompletionRate(p.complete)
                              ELSE NoRate]

\* process_results emptying the tallies it has read (a mutant)
ProcessResultsResetting ==
  /\ process_results
  /\ result' = [v \in DOMAIN result |-> <<0, 0, 0>>]
  /\ UNCHANGED <<videos, queries_per_hit, workers_per_hit, gold_standard_position,
                 round, files, results_csv, queried, cells_read>>

ProcessResults ==
  /\ process_results
  /\ UNCHANGED <<videos, queries_per_hit, workers_per_hit, gold_standard_position,
                 round, result, files, results_csv, queried, cells_read>>

-----------------------------------------------------------------------------
(* The state after construction.                                           *)

\* every round but the first follows a table with a rejected row
Rounds == 1..(MaxCells \div 2 + 1)

FileNames == {QueryFileName(r) : r \in Rounds}
                \cup {AdditionalQueriesFileName(r) : r \in Rounds}

InitWith(maxLen, oldFiles) ==
  /\ \E n \in 1..maxLen : videos = SubSeq(VideoIds, 1, n)
  /\ queries_per_hit \in 2..MaxSlots
  /\ workers_per_hit \in 1..MaxWorkers
  /\ gold_standard_position \in 1..(queries_per_hit + 1)
  /\ round = 1
  /\ result = [v \in Range(videos) |-> <<0, 0, 0>>]
  /\ data = [v \in Range(videos) |-> "None"]
  /\ \E old \in oldFiles :
       files = [f \in FileNames |-> IF f = QueryFileName(1) THEN old ELSE NoFile]
  /\ results_csv = Unread
  /\ queried = [v \in Range(videos) |-> 0]
  /\ cells_read = 0
  /\ lastCall = [op |-> "init", status |-> "ok", reject_ids |-> <<>>, overwrite |-> FALSE, complete |-> 0, rate |-> NoRate]

Init == InitWith(MaxItems, {NoFile})

InitGenerate == InitWith(MaxVideos, {NoFile, StaleBatch})

Next ==
  \/ GenerateQueries
  \/ ParseMissingFile
  \/ ParseResults
  \/ ParseResultsOverwrite
  \/ ProcessResults

Spec == Init /\ [][Next]_vars

NextGenerate == GenerateQueries

SpecGenerate == InitGenerate /\ [][NextGenerate]_vars

-----------------------------------------------------------------------------
(* Reading a query file back as comma-separated text: its lines, and the   *)
(* cells of a line.  A cell is the sequence of tokens between two commas.  *)

RECURSIVE SplitOn(_, _, _)
SplitOn(toks, sep, cur) ==
  IF toks = <<>> THEN <<cur>>
  ELSE IF Head(toks) = sep THEN <<cur>> \o SplitOn(Tail(toks), sep, <<>>)
  ELSE SplitOn(Tail(toks), sep, Append(cur, Head(toks)))

\* the lines of a text: what ends with "\n", and a last line that does not
Lines(toks) ==
  LET parts == SplitOn(toks, "\n", <<>>)
  IN IF parts[Len(parts)] = <<>> THEN SubSeq(parts, 1, Len(parts) - 1) ELSE parts

FileRows(toks) ==
  LET lines == Lines(toks)
  IN [i \in 1..Len(lines) |-> SplitOn(lines[i], ",", <<>>)]

\* the rows below the header row
DataRows(toks) == Tail(FileRows(toks))

\* the batch file of the current round
Batch == files[QueryFileName(round)]

\* the last call was generate_queries and wrote the batch file
Generated == lastCall.op = "generate_queries" /\ lastCall.status # "exit"

\* a cell holding exactly one gold standard
IsGoldCell(cell) == Len(cell) = 1 /\ cell[1] \in Range(gold_standards)

-----------------------------------------------------------------------------
(* Claims about generate_queries (SpecGenerate).                           *)

\* C1: for every gold_standard_position in 1..queries_per_hit, every data row
\* of the batch generate_queries wrote has exactly queries_per_hit columns.
C1_EveryRowHasSlotsColumns ==
  (Generated /\ gold_standard_position \in 1..queries_per_hit)
    => \A i \in DOMAIN DataRows(Batch) : Len(DataRows(Batch)[i]) = queries_per_hit

\* the smallest multiple of m that is >= n
MinimalMultiple(n, m) == CHOOSE k \in n..(n + m) : k % m = 0 /\ \A j \in n..(k - 1) : j % m # 0

\* C2: a generate_queries call that passes the configuration check computes
\* as add_number the least d >= 0 with (len(videos) + d) % (queries_per_hit - 1)
\* = 0 (0 when the length is such a multiple), and completes with the item
\* list padded to that multiple.
C2_PadsToMinimalMultiple ==
  [][(lastCall'.op = "generate_queries" /\ gold_standard_position <= queries_per_hit)
       => /\ AddNumber(Len(videos), queries_per_hit)
               = MinimalMultiple(Len(videos), queries_per_hit - 1) - Len(videos)
          /\ lastCall'.status = "ok"
          /\ Len(videos') = MinimalMultiple(Len(videos), queries_per_hit - 1)]_vars

\* C3: in every data row of the batch generate_queries wrote, the cell at
\* column gold_standard_position is a member of the gold-standard pool.
C3_GoldCellInEveryRow ==
  (Generated /\ gold_standard_position \in 1..queries_per_hit)
    => \A i \in DOMAIN DataRows(Batch) :
         /\ gold_standard_position <= Len(DataRows(Batch)[i])
         /\ IsGoldCell(DataRows(Batch)[i][gold_standard_position])

\* C4: when gold_standard_position > queries_per_hit, generate_queries ends
\* with the configuration error and changes no file, nor the item list, the
\* tallies or the round counter.
C4_ConfigurationErrorWritesNothing ==
  [][(lastCall'.op = "generate_queries" /\ gold_standard_position > queries_per_hit)
       => /\ lastCall'.status = "exit"
          /\ files' = files
          /\ videos' = videos
          /\ result' = result
          /\ round' = round]_vars

\* C4 witness: the call ended with the configuration error, a batch file of
\* an earlier run still in place.
C4_Witness ==
  /\ lastCall.op = "generate_queries"
  /\ lastCall.status = "exit"
  /\ gold_standard_position > queries_per_hit
  /\ Batch = StaleBatch

-----------------------------------------------------------------------------
(* Claims about parse_results_and_generate_additional_queries (Spec).      *)

\* the table the last parse call read
ParsedTable == results_csv.df

\* the last call was a parse call that ran its loop over the rows to the end
ParsedAll(call) == call.op = "parse" /\ call.status \in {"ok", "AttributeError"}

\* row i (0-based) of table df has a gold standard answered "False" in its gold column
FailsGoldCheck(df, i) ==
  /\ df[i + 1][gold_standard_position].rel \in Range(gold_standards)
  /\ df[i + 1][gold_standard_position].ans = "False"

ClaimedBucket(answer) ==
  CASE answer = "True" -> 1
    [] answer = "False" -> 2
    [] OTHER -> 3

\* the cells (row, column) of df that count for bucket b of video v, given
\* the rejected row indices rej
CountedCells(df, rej, v, b) ==
  {ik \in (1..Len(df)) \X (1..queries_per_hit) :
     /\ (ik[1] - 1) \notin Range(rej)
     /\ ik[2] # gold_standard_position
     /\ df[ik[1]][ik[2]].rel = v
     /\ ClaimedBucket(df[ik[1]][ik[2]].ans) = b}

\* C6: a parse call that runs over all rows adds to each bucket of each
\* item's tally the number of cells of non-rejected rows, outside the gold
\* column, that hold the item with an answer of that bucket: 1 per cell, in
\* bucket 0 for "True", 1 for "False", 2 for anything else.
C6_TallyPerAnswer ==
  [][ParsedAll(lastCall')
       => \A v \in DOMAIN result : \A b \in 1..3 :
            result'[v][b] = result[v][b]
              + Cardinality(CountedCells(results_csv'.df, lastCall'.reject_ids, v, b))]_vars

\* C6 witness: a parse call kept a row whose gold answer is "True"; a "False"
\* and an unclear answer are tallied, and no "True".
C6_Witness ==
  /\ ParsedAll(lastCall)
  /\ gold_standard_position \in 1..queries_per_hit
  /\ lastCall.reject_ids = <<>>
  /\ \E i \in 1..Len(ParsedTable) : ParsedTable[i][gold_standard_position].ans = "True"
  /\ \A v \in DOMAIN result : result[v][1] = 0
  /\ \E v \in DOMAIN result : result[v][2] = 1
  /\ \E v \in DOMAIN result : result[v][3] = 1

\* C7: for every item, the sum of its three buckets is at most the number of
\* its occurrences at non-gold columns of the result tables read so far.
C7_VotesAtMostQueried ==
  \A v \in DOMAIN result : Sum3(result[v]) <= queried[v]

\* C8: the round counter starts at 1 and never decreases; a parse call that
\* reaches its end leaves it unchanged when it rejected no row and adds 1
\* when it rejected at least one; no other call changes it.
C8_RoundCounter ==
  /\ round = 1
  /\ [][/\ round' >= round
        /\ lastCall'.op # "parse" => round' = round
        /\ ParsedAll(lastCall')
             => round' = round + (IF Len(lastCall'.reject_ids) > 0 THEN 1 ELSE 0)
        /\ (lastCall'.op = "parse" /\ ~ParsedAll(lastCall')) => round' = round]_vars

\* C8 witness: a parse call found a rejected row and the counter is at 2.
C8_Witness ==
  /\ ParsedAll(lastCall)
  /\ lastCall.reject_ids # <<>>
  /\ round = 2

\* the rows of table df at the (0-based) indices rej, as rows of cells
RejectedRows(df, rej) ==
  [n \in 1..Len(rej) |-> [k \in 1..queries_per_hit |-> <<df[rej[n] + 1][k].rel>>]]

\* C9: a parse call with the overwrite flag that rejected at least one row
\* completes and leaves a batch file of the new round whose data rows are
\* the rows of the rejected indices, in index order.
C9_RejectedRowsResubmitted ==
  (ParsedAll(lastCall) /\ lastCall.overwrite /\ lastCall.reject_ids # <<>>)
    => /\ lastCall.status = "ok"
       /\ \E f \in {QueryFileName(round), AdditionalQueriesFileName(round)} :
            /\ files[f] # NoFile
            /\ DataRows(files[f]) = RejectedRows(ParsedTable, lastCall.reject_ids)

-----------------------------------------------------------------------------
(* Claims about process_results (Spec).                                    *)

\* C10: process_results completes whatever the mix of complete and
\* incomplete items; an item with fewer votes than workers_per_hit gets no
\* True/False label and is not counted as complete.
C10_IncompleteIsNoError ==
  lastCall.op = "process_results"
    => /\ lastCall.status = "ok"
       /\ lastCall.complete =
            Cardinality({v \in DOMAIN result : Sum3(result[v]) >= workers_per_hit})
       /\ \A v \in DOMAIN result :
            Sum3(result[v]) < workers_per_hit => data[v] = "None"

\* the label of the first maximal bucket in the order True, False, Unclear;
\* the label of the third bucket is None
FirstMaximalLabel(t) ==
  IF t[1] >= t[2] /\ t[1] >= t[3] THEN "True"
  ELSE IF t[2] >= t[3] THEN "False"
  ELSE "None"

\* C11: after process_results, every item whose votes sum to at least
\* workers_per_hit has the label of its maximal bucket, on ties the first
\* maximal one in the order True, False, Unclear.
C11_LabelFromFirstMaximalBucket ==
  lastCall.op = "process_results"
    => \A v \in DOMAIN result :
         Sum3(result[v]) >= workers_per_hit => data[v] = FirstMaximalLabel(result[v])

\* the items with at least workers_per_hit votes
CompleteItems == {v \in DOMAIN result : Sum3(result[v]) >= workers_per_hit}

\* C12: the completion rate a completed process_results call prints is the
\* number of items with at least workers_per_hit votes divided by the number
\* of distinct items, also after generate_queries padded the item list; it
\* is 1 exactly when every distinct item is complete.
C12_CompletionRateOverDistinctItems ==
  (lastCall.op = "process_results" /\ lastCall.status = "ok")
    => /\ lastCall.rate.den > 0
       /\ lastCall.rate.num * Cardinality(Range(videos))
            = Cardinality(CompleteItems) * lastCall.rate.den
       /\ (lastCall.rate.num = lastCall.rate.den) <=> (Range(videos) \subseteq CompleteItems)

\* the tallies are the increments of one run over table df, rejecting no
\* row, from empty tallies
TalliesOfOneRun(df) ==
  \A v \in DOMAIN result : \A b \in 1..3 :
    result[v][b] = Cardinality(CountedCells(df, <<>>, v, b))

\* the last call parsed the result file of the current round to the end,
\* rejected no row, and had started from empty tallies
FirstRunDone ==
  /\ ParsedAll(lastCall)
  /\ lastCall.reject_ids = <<>>
  /\ results_csv.round = round
  /\ TalliesOfOneRun(ParsedTable)

\* C13: tallies are never reset: a second parse call on the same input with
\* no rejected row, the first having started from empty tallies, reads the
\* same table again and leaves every bucket at twice the increment of the
\* first run (a bucket the first run did not increment stays 0).
C13_SecondRunDoubles ==
  [][(FirstRunDone /\ lastCall'.op = "parse")
       => /\ results_csv' = results_csv
          /\ ParsedAll(lastCall')
          /\ lastCall'.reject_ids = <<>>
          /\ \A v \in DOMAIN result : \A b \in 1..3 :
               result'[v][b] = 2 * result[v][b]]_vars

\* C13 witness: after the second run over a table, a bucket is at 2, twice
\* its single increment, and every bucket is at twice its one-run increment.
C13_Witness ==
  /\ ParsedAll(lastCall)
  /\ lastCall.reject_ids = <<>>
  /\ results_csv.round = round
  /\ \E v \in DOMAIN result : \E b \in 1..3 : result[v][b] = 2
  /\ \E v \in DOMAIN result : \E b \in 1..3 : result[v][b] = 0
  /\ \A v \in DOMAIN result : \A b \in 1..3 :
       result[v][b] = 2 * Cardinality(CountedCells(ParsedTable, <<>>, v, b))

-----------------------------------------------------------------------------
(* Claims about the layout of the batch file (SpecGenerate).                *)

\* a row of cells without its column pos
DropColumn(row, pos) ==
  IF pos > Len(row) THEN row
  ELSE [k \in 1..(Len(row) - 1) |-> IF k < pos THEN row[k] ELSE row[k + 1]]

RECURSIVE Concat(_)
Concat(rows) == IF rows = <<>> THEN <<>> ELSE Head(rows) \o Concat(Tail(rows))

\* the cells of the data rows of a batch outside column pos, in row-major order
NonGoldCells(toks, pos) ==
  LET rows == DataRows(toks)
  IN Concat([i \in DOMAIN rows |-> DropColumn(rows[i], pos)])

\* an identifier as the text of a cell
Text(v) == <<v>>

\* the keys of the tally store, as texts
TallyKeys == {Text(v) : v \in DOMAIN result}

\* generate_queries was the last call and wrote the rows of the padded list
GeneratedRows ==
  /\ lastCall.op = "generate_queries"
  /\ lastCall.status = "ok"
  /\ gold_standard_position \in 1..queries_per_hit

\* C14: read back as a table, the batch generate_queries wrote has at every
\* column but the gold column of every row exactly the text of the item the
\* generator placed there (the items of the shuffled list in row-major
\* order), character for character, so every such cell is a key of the
\* tally store.
C14_RoundTripKeepsItems ==
  GeneratedRows
    => LET cells == NonGoldCells(Batch, gold_standard_position)
       IN /\ cells = [j \in 1..Len(videos) |-> Text(videos[j])]
          /\ \A j \in DOMAIN cells : cells[j] \in TallyKeys

\* a cell without its blanks
Strip(cell) == SelectSeq(cell, LAMBDA t : t # " ")

\* C15: for every accepted gold_standard_position, the batch has exactly
\* len(videos) / (queries_per_hit - 1) data rows, videos being the padded,
\* shuffled list, and the cells outside the gold column, read in row-major
\* order (blanks aside), are the elements of that list, each once and in order.
C15_RowMajorLayout ==
  GeneratedRows
    => LET cells == NonGoldCells(Batch, gold_standard_position)
       IN /\ Len(DataRows(Batch)) * (queries_per_hit - 1) = Len(videos)
          /\ [j \in DOMAIN cells |-> Strip(cells[j])]
               = [j \in 1..Len(videos) |-> Text(videos[j])]

-----------------------------------------------------------------------------
(* Claims about the round advancer (Spec).                                  *)

C17_AdvancerHeaderIsGeneratorHeader ==
  FileRows(AdvancerHeader(queries_per_hit)) = FileRows(GeneratorHeader(queries_per_hit))

-----------------------------------------------------------------------------
(* Frame claims (Spec).                                                     *)

\* C18: process_results only reads the tallies: whatever the tallies, and
\* however the call ends, every bucket of every item and the round counter
\* are after the call what they were before it; of the object's fields only
\* the labels (self.data) may change.
C18_ProcessResultsReadsOnly ==
  [][lastCall'.op = "process_results"
       => /\ \A v \in DOMAIN result : \A b \in 1..3 : result'[v][b] = result[v][b]
          /\ DOMAIN result' = DOMAIN result
          /\ round' = round
          /\ UNCHANGED <<videos, queries_per_hit, workers_per_hit,
                         gold_standard_position, files>>]_vars

\* C18 witness: a completed process_results call changed a label from None
\* to True over tallies that are not empty, in round 2.
C18_Witness ==
  /\ lastCall.op = "process_results"
  /\ lastCall.status = "ok"
  /\ round = 2
  /\ \E v \in DOMAIN result : result[v][1] > 0 /\ data[v] = "True"

\* every cell of table df outside the gold column holds an item with a tally
AllKnownItems(df) ==
  \A i \in 1..Len(df) : \A k \in 1..queries_per_hit :
    k # gold_standard_position => df[i][k].rel \in DOMAIN result

\* item v is in a cell outside the gold column of row i (1-based) of df
OccursInRow(df, i, v) ==
  \E k \in 1..queries_per_hit : k # gold_standard_position /\ df[i][k].rel = v

\* item v occurs in table df in rows of the rejected indices rej only
OnlyInRejectedRows(df, rej, v) ==
  \A i \in 1..Len(df) : OccursInRow(df, i, v) => (i - 1) \in Range(rej)

\* C19: a parse call over a table whose cells outside the gold column all
\* hold known items runs to the end; the sum of all buckets of all items
\* grows by (rows not rejected) x (queries_per_hit - 1), and every bucket of
\* an item that occurs in rejected rows only is unchanged.
C19_RejectedRowsAddNoVotes ==
  [][(/\ lastCall'.op = "parse"
      /\ lastCall'.status # "IOError"
      /\ gold_standard_position \in 1..queries_per_hit
      /\ AllKnownItems(results_csv'.df))
       => /\ ParsedAll(lastCall')
          /\ TotalVotes(result') = TotalVotes(result)
               + (Len(results_csv'.df) - Len(lastCall'.reject_ids)) * (queries_per_hit - 1)
          /\ \A v \in DOMAIN result :
               OnlyInRejectedRows(results_csv'.df, lastCall'.reject_ids, v)
                 => result'[v] = result[v]]_vars

\* C19 witness: a parse call over a table of known items rejected a row and
\* kept another; the votes are those of the kept row, and an item of the
\* rejected row that is in no kept row has no vote.
C19_Witness ==
  /\ ParsedAll(lastCall)
  /\ gold_standard_position \in 1..queries_per_hit
  /\ AllKnownItems(ParsedTable)
  /\ lastCall.reject_ids # <<>>
  /\ Len(ParsedTable) > Len(lastCall.reject_ids)
  /\ TotalVotes(result)
       = (Len(ParsedTable) - Len(lastCall.reject_ids)) * (queries_per_hit - 1)
  /\ \E v \in DOMAIN result :
       /\ \E i \in 1..Len(ParsedTable) : OccursInRow(ParsedTable, i, v)
       /\ OnlyInRejectedRows(ParsedTable, lastCall.reject_ids, v)
       /\ result[v] = <<0, 0, 0>>

====
